---- MODULE Spec2Model ----
(***************************************************************************)
(* Event ingestion and moderation pipeline of the civic events directory.  *)
(*                                                                         *)
(* The shared store holds the "protests" table (event records) and the     *)
(* "reports" table.  Writers are the import endpoint                       *)
(* (src/app/api/import/run/route.ts, GET), the organizer's create form,    *)
(* the administrator's review page and the report form of the detail page. *)
(* Readers are the listing pages and the detail page.                      *)
(*                                                                         *)
(* Timestamps are integer clock readings, one unit per day, so that the    *)
(* 45-day grace period of the expiry sweep is the number 45.  Every        *)
(* awaited feed fetch is a network round trip and moves the clock by one   *)
(* reading; longer stretches of time pass between invocations only         *)
(* (an invocation lasts far less than the grace period).                   *)
(***************************************************************************)
EXTENDS Integers, Sequences, FiniteSets, TLC

(***************************************************************************)
(* Bounds of the model.                                                    *)
(***************************************************************************)
MaxNow == 49          \* last clock reading explored
MaxRows == 3          \* rows the protests table may hold
MaxReports == 3       \* report rows the reports table may hold
MaxInvocations == 3   \* requests the import endpoint receives
MaxOrganized == 1     \* events organizers create through the form
MaxText == 4          \* characters of the texts given to the text helpers
MaxClock == 120       \* last reading of the browser clock explored
MaxComments == 2      \* rows the comments table may hold

(***************************************************************************)
(* Program constants.                                                      *)
(***************************************************************************)
expireDays == 45    \* grace period of the expiry sweep
FeedCap == 200      \* events.slice(0, 200)
WindowBack == 7     \* daysFromNowIso(-7)
WindowAhead == 180  \* daysFromNowIso(180)
ClampMax == 2000    \* clampText(s, max = 2000)
COMMENT_COOLDOWN_SECONDS == 20

(***************************************************************************)
(* Value domains.  SQL NULL is NoTime for timestamp columns, NoId for      *)
(* external_id and NoText for text columns.                                *)
(***************************************************************************)
NoTime == -1
NoId == -1
\* A DTSTART the calendar library cannot turn into a date.
BadTime == -2
NoText == "null"
NoUser == "null"

\* Import invocations that may be in flight together; the sequential
\* specifications use r1 alone.
Runs == {"r1", "r2"}
MainRuns == {"r1"}
\* Stretches of idle time between invocations, around the grace period: with
\* the readings the fetches of one invocation take, a record is 44, 45 or 46
\* readings old at the next sweep.
ElapseDays == (expireDays - 3) .. (expireDays - 1)

\* IMPORT_SOURCES_JSON after getSourcesFromEnv: the configured feeds, in
\* order.  A deployment configures one feed or two.
SourceA == [key |-> "a", name |-> "Feed A"]
SourceB == [key |-> "b", name |-> "Feed B"]
OneSource == << SourceA >>
TwoSources == << SourceA, SourceB >>
SourceConfigs == {OneSource, TwoSources}
KeysOf(srcs) == {srcs[i].key : i \in DOMAIN srcs}

\* The environment of a deployment: CRON_SECRET set or not, and
\* IMPORT_SOURCES_JSON well formed, not JSON, or JSON that is no array.
Secret == "s3"
GoodEnv == [ secret |-> Secret, json |-> "ok" ]
Envs == [ secret : {Secret, ""}, json : {"ok", "not_json", "not_array"} ]

\* The two import endpoints: /api/import/run and
\* /know-your-rights/api/import/run.
Endpoints == {"run", "kyr"}
\* What a caller sends: the token query parameter ("" when absent) and the
\* x-vercel-cron header (NoText when absent).
Requests == [ token : {"", Secret, "wrong"}, cron : {NoText, "1", Secret} ]
TokenRequest == [ token |-> Secret, cron |-> NoText ]
NoRequest == [ token |-> "", cron |-> NoText ]

\* Calendar sub-entries as icsToEvents returns them: uid and title stand for
\* the whole normalized entry.  Uids are drawn from the same values as the
\* store's row ids, so an external_id can equal a row id.
Uids == {1, 2}
Titles == {"t1", "t2"}
TimedEntry(u, t, s) == [external_id |-> u, title |-> t, start_iso |-> s]
Entry(u, t) == TimedEntry(u, t, NoTime)
\* Documents a feed may serve: feed "a" lists two entries, or one of them
\* retitled; feed "b" lists one entry or none.
FeedDocs(k) ==
    IF k = "a"
    THEN { << Entry(1, "t1"), Entry(2, "t1") >>, << Entry(1, "t2") >> }
    ELSE { << Entry(1, "t1") >>, << >> }

Statuses == {"active", "under_review", "hidden", "inactive"}

\* Accounts: u1 organizes events, u2 is an unrelated visitor account,
\* adm has a row in the admins table.
Users == {"u1", "u2", "adm"}
Admins == {"adm"}
Organizers == {"u1"}
\* Who may look at a page: an account, or a visitor who is not signed in.
Viewers == Users \cup {NoUser}

VARIABLES
    now,        \* the wall clock (Date.now(), new Date())
    protests,   \* the protests table: a sequence of rows, row i has id i
    reports,    \* the reports table: reports[i] = number of rows with protest_id = i
    sources,    \* the configured import sources (the environment's source list)
    env,        \* the rest of the environment: CRON_SECRET, and whether
                \* IMPORT_SOURCES_JSON parses to an array
    feeds,      \* the document each configured feed URL currently serves
    run,        \* the import invocations
    started,    \* requests the import endpoint has received
    snap,       \* the protests table as the last fully successful invocation left it
    page,       \* what the page a visitor loaded last holds
    descr,      \* a description text on its way through clampText
    fetch,      \* one call of fetchIcs
    comments,   \* the comments table
    storage,    \* localStorage of the commenter's browser: la:last_comment_ts
    tabs,       \* the detail page open in each tab of that browser
    clock       \* Date.now() of that browser, in seconds

\* The variables of the import, the moderation and the readers.
importVars == << now, protests, reports, sources, env, feeds, run, started, snap, page >>

\* The variables of the text helpers, of fetchIcs and of the comments.
otherVars == << descr, fetch, comments, storage, tabs, clock >>

vars == << now, protests, reports, sources, env, feeds, run, started, snap, page,
           descr, fetch, comments, storage, tabs, clock >>

\* Nothing is on its way through the text helpers or fetchIcs, no detail
\* page is open.
NoDescr == [ pc |-> "idle" ]
NoFetch == [ pc |-> "idle" ]
\* localStorage without the key; works tells whether localStorage can be
\* used at all (it throws where the browser denies storage).
NoStorage == [ works |-> TRUE, ts |-> NoTime ]

OtherIdle ==
    /\ descr = NoDescr
    /\ fetch = NoFetch
    /\ comments = << >>
    /\ storage = NoStorage
    /\ tabs = << >>
    /\ clock = 0

Ids == 1 .. MaxRows

\* No cap: the whole sequence.
SeqWhole(s, n) == s

SeqTake(s, n) == SubSeq(s, 1, IF Len(s) < n THEN Len(s) ELSE n)

(***************************************************************************)
(* The store's upsert: INSERT ... ON CONFLICT (source_key, external_id)    *)
(* DO UPDATE SET <the payload's columns>.                                  *)
(***************************************************************************)
\* The row the payload conflicts with.  NULL never equals NULL in a unique index.
Conflicts(row, payload) ==
    /\ row.source_key # NoText
    /\ row.external_id # NoId
    /\ row.source_key = payload.source_key
    /\ row.external_id = payload.external_id

\* A payload whose last_seen_at does not come from the clock.
PayloadSeenFromFeed(src, ev, nowIso) ==
    [ source_key |-> src.key, external_id |-> ev.external_id, title |-> ev.title,
      event_time |-> ev.start_iso,
      status |-> "active", source_type |-> "import", last_seen_at |-> 0 ]

\* The payload GET builds for one normalized entry.
Payload(src, ev, nowIso) ==
    [ title |-> ev.title,
      event_time |-> ev.start_iso,
      status |-> "active",
      source_type |-> "import",
      source_key |-> src.key,
      external_id |-> ev.external_id,
      last_seen_at |-> nowIso ]

\* The conflicting row replaced as a whole: the columns the payload does not
\* name fall back to the table's defaults.
UpdateRowReplace(row, payload) ==
    [ row EXCEPT !.title = payload.title,
                 !.event_time = payload.event_time,
                 !.status = payload.status,
                 !.source_type = payload.source_type,
                 !.source_key = payload.source_key,
                 !.external_id = payload.external_id,
                 !.last_seen_at = payload.last_seen_at,
                 !.report_count = 0,
                 !.last_reported_at = NoTime ]

\* An update that takes the row as touched at the time of the run.
UpdateRowTouchReported(row, payload) ==
    [ row EXCEPT !.title = payload.title,
                 !.event_time = payload.event_time,
                 !.status = payload.status,
                 !.source_type = payload.source_type,
                 !.source_key = payload.source_key,
                 !.external_id = payload.external_id,
                 !.last_seen_at = payload.last_seen_at,
                 !.last_reported_at = payload.last_seen_at ]

\* The columns of the payload overwrite the conflicting row; every other
\* column (id, user_id, report_count, last_reported_at) keeps its value.
UpdateRow(row, payload) ==
    [ row EXCEPT !.title = payload.title,
                 !.event_time = payload.event_time,
                 !.status = payload.status,
                 !.source_type = payload.source_type,
                 !.source_key = payload.source_key,
                 !.external_id = payload.external_id,
                 !.last_seen_at = payload.last_seen_at ]

\* A fresh row: the payload's columns, the rest at the table's defaults.
InsertRow(payload) ==
    [ title |-> payload.title,
      event_time |-> payload.event_time,
      status |-> payload.status,
      source_type |-> payload.source_type,
      source_key |-> payload.source_key,
      external_id |-> payload.external_id,
      last_seen_at |-> payload.last_seen_at,
      user_id |-> NoUser,
      report_count |-> 0,
      last_reported_at |-> NoTime ]

\* Plain insert: no conflict target.
UpsertTableInsertOnly(table, payload) == Append(table, InsertRow(payload))

\* Conflict resolved on the row id instead of (source_key, external_id).
UpsertTableById(table, payload) ==
    IF payload.external_id \in DOMAIN table
    THEN [ i \in DOMAIN table |->
             IF i = payload.external_id THEN UpdateRow(table[i], payload)
             ELSE table[i] ]
    ELSE Append(table, InsertRow(payload))

UpsertTable(table, payload) ==
    IF \E i \in DOMAIN table : Conflicts(table[i], payload)
    THEN [ i \in DOMAIN table |->
             IF Conflicts(table[i], payload) THEN UpdateRow(table[i], payload)
             ELSE table[i] ]
    ELSE Append(table, InsertRow(payload))

(***************************************************************************)
(* The expiry sweep: update({status: "inactive"})                          *)
(*   .eq("source_type", "import").lt("last_seen_at", cutoff)               *)
(***************************************************************************)
\* A sweep that also takes the rows last seen exactly at the cutoff.
SweepMatchesAtCutoff(row, cutoff) ==
    /\ row.source_type = "import"
    /\ row.last_seen_at # NoTime
    /\ row.last_seen_at <= cutoff

\* A comparison with NULL selects no row.
SweepMatches(row, cutoff) ==
    /\ row.source_type = "import"
    /\ row.last_seen_at # NoTime
    /\ row.last_seen_at < cutoff

SweepTable(table, cutoff) ==
    [ i \in DOMAIN table |->
        IF SweepMatches(table[i], cutoff)
        THEN [ table[i] EXCEPT !.status = "inactive" ]
        ELSE table[i] ]

(***************************************************************************)
(* The import endpoint, GET.  One action per awaited step.                 *)
(***************************************************************************)
\* http: the status of the response (0 while there is none); sweeps: the
\* expiry updates issued; written: the keys upserted, in order.
IdleRun ==
    [ pc |-> "idle", nowIso |-> NoTime, si |-> 0, limited |-> << >>, ei |-> 0,
      results |-> << >>, totalUpserts |-> 0,
      ep |-> "run", req |-> NoRequest, windowed |-> FALSE, filtered |-> << >>,
      http |-> 0, sweeps |-> 0, expireError |-> FALSE, written |-> << >> ]

InFlight(r) == run[r].pc \notin {"idle", "done"}
AllIdle == \A r \in Runs : ~ InFlight(r)
AllOk(results) == \A j \in DOMAIN results : results[j].ok

\* quiet: nothing but the invocation in flight has written since it started.
NoSnap == [ valid |-> FALSE, table |-> << >>, streak |-> 0, quiet |-> FALSE ]

\* The check at the top of GET.  /api/import/run takes the token alone;
\* the know-your-rights endpoint also takes the presence of x-vercel-cron.
Authorized(ep, req, e) ==
    IF ep = "kyr"
    THEN \/ e.secret # "" /\ req.cron \notin {NoText, ""}
         \/ e.secret # "" /\ req.token = e.secret
    ELSE e.secret # "" /\ req.token = e.secret

\* A source list that is taken as it is, whatever JSON.parse made of it.
getSourcesUnchecked(e, srcs) == [ ok |-> TRUE, sources |-> srcs ]

\* getSourcesFromEnv: throws unless IMPORT_SOURCES_JSON parses to an array.
getSourcesFromEnv(e, srcs) ==
    IF e.json = "ok" THEN [ ok |-> TRUE, sources |-> srcs ]
    ELSE [ ok |-> FALSE, sources |-> << >> ]

\* A response sent before the loop: no fetch, no store call.
EarlyResponse(ep, req, status) ==
    [ IdleRun EXCEPT !.pc = "done", !.ep = ep, !.req = req, !.http = status ]

\* GET up to the loop: 401, the exception of getSourcesFromEnv (500), 400 for
\* an empty list, or nowIso read once, before the first feed.
Begin(ep, req, e, srcs, t) ==
    IF ~ Authorized(ep, req, e) THEN EarlyResponse(ep, req, 401)
    ELSE LET got == getSourcesFromEnv(e, srcs)
         IN IF ~ got.ok THEN EarlyResponse(ep, req, 500)
            ELSE IF Len(got.sources) = 0 THEN EarlyResponse(ep, req, 400)
            ELSE [ IdleRun EXCEPT !.pc = "fetch", !.nowIso = t, !.si = 1,
                                  !.ep = ep, !.req = req,
                                  !.windowed = (ep = "kyr") ]

\* A request arrives at one of the endpoints.
Invoke(r, ep, req) ==
    /\ ~ InFlight(r)
    /\ started < MaxInvocations
    /\ started' = started + 1
    /\ run' = [ run EXCEPT ![r] = Begin(ep, req, env, sources, now) ]
    /\ snap' = IF run'[r].pc = "done" THEN snap
               ELSE IF AllIdle THEN [ snap EXCEPT !.quiet = TRUE ] ELSE NoSnap
    /\ UNCHANGED << now, protests, reports, sources, env, feeds, page, otherVars >>

\* The scheduler's request to /api/import/run, with the token.
StartRun(r) == Invoke(r, "run", TokenRequest)

\* An entry the loop of icsToEvents converts: it has a uid.
HasUid(ev) == ev.external_id # NoId

\* A text is a sequence of characters; a uid that was not trimmed.
TrimNone(s) == s

\* String.prototype.trim: the text without its leading and trailing blanks.
Trim(s) ==
    LET inked == { i \in DOMAIN s : s[i] # " " }
    IN IF inked = {} THEN << >>
       ELSE SubSeq(s, CHOOSE i \in inked : \A j \in inked : i <= j,
                      CHOOSE i \in inked : \A j \in inked : i >= j)

\* The number that stands for a uid text in external_id: the empty text is
\* NoId, the texts "1" and "2" are 1 and 2, every other text has its own
\* number (the characters are digits 1, 2 and 3 = blank, read in base 3).
RECURSIVE UidCode(_)
UidCode(s) ==
    IF s = << >> THEN NoId
    ELSE LET c == s[Len(s)]
             d == IF c = "1" THEN 1 ELSE IF c = "2" THEN 2 ELSE 3
             rest == SubSeq(s, 1, Len(s) - 1)
         IN (IF rest = << >> THEN 0 ELSE 3 * UidCode(rest)) + d

\* A vevent as the feed serves it: uid is the set of its UID properties,
\* empty when the property is missing.
RawEvent(uid) == [ uid |-> uid, title |-> "t1", start_iso |-> NoTime ]

\* new ICAL.Event(v), uid = (e.uid || "").trim(); an entry given with its
\* external_id is one whose uid was read already.
ReadEvent(v) ==
    IF "uid" \in DOMAIN v
    THEN TimedEntry(UidCode(Trim(IF v.uid = {} THEN << >>
                                 ELSE CHOOSE t \in v.uid : TRUE)),
                    v.title, v.start_iso)
    ELSE v

\* icsToEvents: entries without a uid are skipped; an entry whose start
\* cannot be converted throws out of the function (toISOString), there is no
\* try around the loop body.
icsToEvents(doc) ==
    LET read == [ j \in DOMAIN doc |-> ReadEvent(doc[j]) ]
    IN IF \E j \in DOMAIN read : HasUid(read[j]) /\ read[j].start_iso = BadTime
       THEN [ ok |-> FALSE, events |-> << >> ]
       ELSE [ ok |-> TRUE, events |-> SelectSeq(read, HasUid) ]

\* A window without its upper end.
InWindowNoUpper(ev, t) ==
    \/ ev.start_iso = NoTime
    \/ ev.start_iso >= t - WindowBack

\* The filter of the know-your-rights endpoint: minDateIso and maxDateIso
\* are read before the loop, with nowIso.
InWindow(ev, t) ==
    \/ ev.start_iso = NoTime
    \/ ev.start_iso >= t - WindowBack /\ ev.start_iso <= t + WindowAhead

WindowFilter(events, t) ==
    LET keep(ev) == InWindow(ev, t) IN SelectSeq(events, keep)

\* The sequence the upsert loop runs over: filtered where there is a filter.
Loop(rr) == IF rr.windowed THEN rr.filtered ELSE rr.limited

\* A fetch step that filters every normalized entry and caps what is kept.
FetchOkFilterFirst(r) ==
    /\ run[r].pc = "fetch"
    /\ now < MaxNow
    /\ now' = now + 1
    /\ LET src == sources[run[r].si]
           got == icsToEvents(feeds[src.key])
           limited == SeqTake(got.events, FeedCap)
       IN /\ got.ok
          /\ run' = [ run EXCEPT ![r].limited = limited, ![r].ei = 1,
                                  ![r].filtered =
                                      IF run[r].windowed
                                      THEN SeqTake(WindowFilter(got.events, run[r].nowIso),
                                                   FeedCap)
                                      ELSE << >>,
                                  ![r].pc = "upsert" ]
    /\ UNCHANGED << protests, reports, sources, env, feeds, started, snap, page, otherVars >>

\* fetchIcs + icsToEvents + slice for the current source succeed.
FetchOk(r) ==
    /\ run[r].pc = "fetch"
    /\ now < MaxNow
    /\ now' = now + 1
    /\ LET src == sources[run[r].si]
           got == icsToEvents(feeds[src.key])
           limited == SeqTake(got.events, FeedCap)
       IN /\ got.ok
          /\ run' = [ run EXCEPT ![r].limited = limited, ![r].ei = 1,
                                  ![r].filtered =
                                      IF run[r].windowed
                                      THEN WindowFilter(limited, run[r].nowIso)
                                      ELSE << >>,
                                  ![r].pc = "upsert" ]
    /\ UNCHANGED << protests, reports, sources, env, feeds, started, snap, page, otherVars >>

\* A loop that skips the sweep when no feed succeeded.
NextSourceNoSweepAfterFailures(rr, srcs) ==
    IF rr.si < Len(srcs)
    THEN [ rr EXCEPT !.si = rr.si + 1, !.pc = "fetch", !.limited = << >>,
                     !.filtered = << >>, !.ei = 0 ]
    ELSE IF \A j \in DOMAIN rr.results : ~ rr.results[j].ok
    THEN [ rr EXCEPT !.pc = "done", !.http = 200, !.limited = << >>,
                     !.filtered = << >>, !.ei = 0 ]
    ELSE [ rr EXCEPT !.pc = "sweep", !.limited = << >>, !.filtered = << >>,
                     !.ei = 0 ]

\* A loop that a failed feed ends.
NextSourceStopAtFailure(rr, srcs) ==
    IF rr.si < Len(srcs) /\ rr.results[Len(rr.results)].ok
    THEN [ rr EXCEPT !.si = rr.si + 1, !.pc = "fetch", !.limited = << >>,
                     !.filtered = << >>, !.ei = 0 ]
    ELSE [ rr EXCEPT !.pc = "sweep", !.limited = << >>, !.filtered = << >>,
                     !.ei = 0 ]

\* After a source's try/catch: the next source, or the sweep.
NextSource(rr, srcs) ==
    IF rr.si < Len(srcs)
    THEN [ rr EXCEPT !.si = rr.si + 1, !.pc = "fetch", !.limited = << >>,
                     !.filtered = << >>, !.ei = 0 ]
    ELSE [ rr EXCEPT !.pc = "sweep", !.limited = << >>, !.filtered = << >>,
                     !.ei = 0 ]

Failed(rr, srcs, e) ==
    [ rr EXCEPT !.results =
        Append(@, [source |-> srcs[rr.si].key, ok |-> FALSE, error |-> e]) ]

Succeeded(rr, srcs) ==
    [ rr EXCEPT !.results = Append(@, [source |-> srcs[rr.si].key, ok |-> TRUE]) ]

\* fetchIcs or icsToEvents throws: the catch records the failure.
FetchFail(r) ==
    /\ run[r].pc = "fetch"
    /\ now < MaxNow
    /\ now' = now + 1
    /\ run' = [ run EXCEPT ![r] =
                  NextSource(Failed(run[r], sources, "fetch"), sources) ]
    /\ UNCHANGED << protests, reports, sources, env, feeds, started, snap, page, otherVars >>

\* The document was served but icsToEvents threw: the same catch records
\* the source as failed and the loop goes on.
ParseFail(r) ==
    /\ run[r].pc = "fetch"
    /\ now < MaxNow
    /\ now' = now + 1
    /\ ~ icsToEvents(feeds[sources[run[r].si].key]).ok
    /\ run' = [ run EXCEPT ![r] =
                  NextSource(Failed(run[r], sources, "parse"), sources) ]
    /\ UNCHANGED << protests, reports, sources, env, feeds, started, snap, page, otherVars >>

\* One pass of the for loop over limited: the upsert succeeds.
UpsertOk(r) ==
    /\ run[r].pc = "upsert"
    /\ run[r].ei <= Len(Loop(run[r]))
    /\ LET src == sources[run[r].si]
           ev == Loop(run[r])[run[r].ei]
           payload == Payload(src, ev, run[r].nowIso)
       IN /\ protests' = UpsertTable(protests, payload)
          /\ run' = [ run EXCEPT ![r].ei = @ + 1, ![r].totalUpserts = @ + 1,
                                  ![r].written =
                                      Append(@, << src.key, ev.external_id >>) ]
    /\ UNCHANGED << now, reports, sources, env, feeds, started, snap, page, otherVars >>

\* An upsert error that is swallowed: the loop goes on with the next entry.
UpsertFailSkipEntry(r) ==
    /\ run[r].pc = "upsert"
    /\ run[r].ei <= Len(Loop(run[r]))
    /\ run' = [ run EXCEPT ![r].ei = @ + 1 ]
    /\ UNCHANGED << now, protests, reports, sources, env, feeds, started, snap, page, otherVars >>

\* The upsert returns an error: throw, the catch records the failure.
UpsertFail(r) ==
    /\ run[r].pc = "upsert"
    /\ run[r].ei <= Len(Loop(run[r]))
    /\ run' = [ run EXCEPT ![r] =
                  NextSource(Failed(run[r], sources, "upsert"), sources) ]
    /\ UNCHANGED << now, protests, reports, sources, env, feeds, started, snap, page, otherVars >>

\* The loop over limited is over: results.push({... ok: true}).
SourceDone(r) ==
    /\ run[r].pc = "upsert"
    /\ run[r].ei > Len(Loop(run[r]))
    /\ run' = [ run EXCEPT ![r] = NextSource(Succeeded(run[r], sources), sources) ]
    /\ UNCHANGED << now, protests, reports, sources, env, feeds, started, snap, page, otherVars >>

\* The expiry sweep and the response.
Sweep(r) ==
    /\ run[r].pc = "sweep"
    /\ LET cutoff == now - expireDays
       IN protests' = SweepTable(protests, cutoff)
    /\ run' = [ run EXCEPT ![r].pc = "done", ![r].sweeps = @ + 1,
                            ![r].http = 200 ]
    /\ snap' = IF /\ AllOk(run[r].results)
                  /\ snap.quiet
                  /\ \A q \in Runs \ {r} : ~ InFlight(q)
               THEN [ valid |-> TRUE, table |-> protests', quiet |-> FALSE,
                      streak |-> IF snap.valid THEN snap.streak + 1 ELSE 1 ]
               ELSE NoSnap
    /\ UNCHANGED << now, reports, sources, env, feeds, started, page, otherVars >>

\* The expiry update returns an error: it is reported in the response
\* (expireError) and nothing is thrown.
SweepError(r) ==
    /\ run[r].pc = "sweep"
    /\ run' = [ run EXCEPT ![r].pc = "done", ![r].sweeps = @ + 1,
                            ![r].http = 200, ![r].expireError = TRUE ]
    /\ snap' = NoSnap
    /\ UNCHANGED << now, protests, reports, sources, env, feeds, started, page, otherVars >>

(***************************************************************************)
(* The environment: time passes between invocations, feeds change.         *)
(***************************************************************************)
Elapse(d) ==
    /\ AllIdle
    /\ now + d <= MaxNow
    /\ now' = now + d
    /\ UNCHANGED << protests, reports, sources, env, feeds, run, started, snap, page, otherVars >>

\* A feed is read by the fetch of its source alone, so a change during an
\* invocation is the same change before it or after it.
FeedChange(k, doc) ==
    /\ AllIdle
    /\ feeds[k] # doc
    /\ feeds' = [ feeds EXCEPT ![k] = doc ]
    /\ snap' = NoSnap
    /\ UNCHANGED << now, protests, reports, sources, env, run, started, page, otherVars >>

(***************************************************************************)
(* The organizer's create form: insert into protests.                      *)
(***************************************************************************)
\* The row onSubmit inserts: the provenance columns are not in the insert and
\* stay at the table's defaults.
OrganizerRow(user, title) ==
    [ title |-> title,
      event_time |-> NoTime,
      status |-> "active",
      source_type |-> "organizer",
      source_key |-> NoText,
      external_id |-> NoId,
      last_seen_at |-> NoTime,
      user_id |-> user,
      report_count |-> 0,
      last_reported_at |-> NoTime ]

\* A signed-in user submits the form with title, city and state filled in.
CreateProtest(user, title) ==
    /\ Len(protests) < MaxRows
    /\ Cardinality({ i \in DOMAIN protests : protests[i].user_id # NoUser }) < MaxOrganized
    /\ protests' = Append(protests, OrganizerRow(user, title))
    /\ snap' = NoSnap
    /\ UNCHANGED << now, reports, sources, env, feeds, run, started, page, otherVars >>

(***************************************************************************)
(* The administrator's review page.                                        *)
(***************************************************************************)
\* update({ status }).eq("id", protestId)
SetStatus(table, id, status) ==
    [ i \in DOMAIN table |->
        IF i = id THEN [ table[i] EXCEPT !.status = status ] ELSE table[i] ]

\* The statuses the page's buttons pass: Approve and Hide.
ButtonStatuses == {"active", "hidden"}

\* The page lists every row of the table (filter "all" shows them all), each
\* with both buttons.
setProtestStatus(id, status) ==
    /\ id \in DOMAIN protests
    /\ protests' = SetStatus(protests, id, status)
    /\ snap' = NoSnap
    /\ UNCHANGED << now, reports, sources, env, feeds, run, started, page, otherVars >>

(***************************************************************************)
(* The report form of the detail page.                                     *)
(***************************************************************************)
TotalReports == LET S[n \in 0 .. MaxRows] ==
                        IF n = 0 THEN 0 ELSE S[n - 1] + reports[n]
                IN S[MaxRows]

\* What the store does with the protests row when a report row is inserted.
ReportTrigger(table, id, t) ==
    [ i \in DOMAIN table |->
        IF i = id
        THEN [ table[i] EXCEPT !.report_count = @ + 1, !.last_reported_at = t ]
        ELSE table[i] ]

\* A report form that also takes the listing out of the public view.
submitReportAndFlag(id) ==
    /\ id \in DOMAIN protests
    /\ TotalReports < MaxReports
    /\ reports' = [ reports EXCEPT ![id] = @ + 1 ]
    /\ protests' = SetStatus(ReportTrigger(protests, id, now), id, "under_review")
    /\ snap' = NoSnap
    /\ UNCHANGED << now, sources, env, feeds, run, started, page, otherVars >>

\* A reason is selected and the insert into reports succeeds.
submitReport(id) ==
    /\ id \in DOMAIN protests
    /\ TotalReports < MaxReports
    /\ reports' = [ reports EXCEPT ![id] = @ + 1 ]
    /\ protests' = ReportTrigger(protests, id, now)
    /\ snap' = NoSnap
    /\ UNCHANGED << now, sources, env, feeds, run, started, page, otherVars >>

\* The store puts an active listing under review.
EnterReview(id) ==
    /\ id \in DOMAIN protests
    /\ protests[id].status = "active"
    /\ protests' = SetStatus(protests, id, "under_review")
    /\ snap' = NoSnap
    /\ UNCHANGED << now, reports, sources, env, feeds, run, started, page, otherVars >>

ModerationStep ==
    \/ \E u \in Organizers, t \in {"t1"} : CreateProtest(u, t)
    \/ \E i \in Ids, s \in ButtonStatuses : setProtestStatus(i, s)
    \/ \E i \in Ids : submitReport(i)
    \/ \E i \in Ids : EnterReview(i)

(***************************************************************************)
(* The readers: the events index and the detail page.                      *)
(***************************************************************************)
ListLimit == 60

WithId(table, i) == [ id |-> i, row |-> table[i] ]

\* from("protests").select(...).eq("status", "active")
\*   .order("created_at", { ascending: false }).limit(60)
\* Rows are appended in creation order, so the newest rows have the largest ids.
ListingQuery(table) ==
    LET active == { i \in DOMAIN table : table[i].status = "active" }
        shown == { i \in active : Cardinality({ j \in active : j > i }) < ListLimit }
    IN { WithId(table, i) : i \in shown }

\* A visitor opens the events index.
EventsIndexPage(viewer) ==
    /\ page' = [ kind |-> "listing", viewer |-> viewer, rows |-> ListingQuery(protests) ]
    /\ UNCHANGED << now, protests, reports, sources, env, feeds, run, started, snap, otherVars >>

NoRow == [ id |-> 0 ]

\* from("protests").select("*").eq("id", protestId).single(): the row, whatever
\* its status, or an error when there is none.
DetailQuery(table, id) ==
    IF id \in DOMAIN table THEN WithId(table, id) ELSE NoRow

\* The effect that loads the detail page: who is viewing, the row, and
\* whether the viewer is its organizer.
LoadDetail(viewer, id) ==
    /\ LET p == DetailQuery(protests, id)
       IN page' = [ kind |-> "detail", viewer |-> viewer, protest |-> p,
                    isOrganizer |-> /\ p # NoRow
                                    /\ viewer # NoUser
                                    /\ p.row.user_id = viewer ]
    /\ UNCHANGED << now, protests, reports, sources, env, feeds, run, started, snap, otherVars >>

\* A detail page without the availability gate.
RenderNoGate(pg) ==
    IF pg.protest = NoRow THEN "not_found" ELSE "full"

\* What the detail page renders from what it loaded.
Render(pg) ==
    IF pg.protest = NoRow THEN "not_found"
    ELSE IF pg.protest.row.status # "active" /\ ~ pg.isOrganizer THEN "unavailable"
    ELSE "full"

ViewStep ==
    \/ \E v \in Viewers : EventsIndexPage(v)
    \/ \E v \in Viewers, i \in Ids : LoadDetail(v, i)

NoPage == [ kind |-> "none" ]

Init ==
    /\ now = 0
    /\ protests = << >>
    /\ reports = [ i \in Ids |-> 0 ]
    /\ sources \in SourceConfigs
    /\ env = GoodEnv
    /\ feeds \in { f \in [ KeysOf(sources) -> UNION { FeedDocs(k) : k \in KeysOf(sources) } ] :
                     \A k \in KeysOf(sources) : f[k] \in FeedDocs(k) }
    /\ run = [ r \in Runs |-> IdleRun ]
    /\ started = 0
    /\ snap = NoSnap
    /\ page = NoPage
    /\ OtherIdle

ImportStep(r) ==
    \/ StartRun(r)
    \/ FetchOk(r)
    \/ FetchFail(r)
    \/ UpsertOk(r)
    \/ UpsertFail(r)
    \/ SourceDone(r)
    \/ Sweep(r)
    \/ SweepError(r)

\* Ingestion: the import endpoint invoked sequentially, the feeds, the clock,
\* and the form that puts organizer rows beside the imported ones.
Next ==
    \/ \E r \in MainRuns : ImportStep(r)
    \/ \E d \in ElapseDays : Elapse(d)
    \/ \E k \in KeysOf(sources) : \E doc \in FeedDocs(k) : FeedChange(k, doc)
    \/ \E u \in Organizers, t \in {"t1"} : CreateProtest(u, t)

InitOne == Init /\ sources = OneSource

Spec == InitOne /\ [][Next]_vars

\* Moderation: every writer of the store, over a feed that does not change.
InitModeration ==
    /\ InitOne
    /\ feeds = [ k \in KeysOf(sources) |-> << Entry(1, "t2") >> ]

NextModeration ==
    \/ \E r \in MainRuns : ImportStep(r)
    \/ \E d \in ElapseDays : Elapse(d)
    \/ ModerationStep

SpecModeration == InitModeration /\ [][NextModeration]_vars

\* A table as earlier import invocations left it: empty, or one imported row
\* in any of the statuses an imported row takes, last seen long enough ago
\* for the sweep to have made it inactive.
ImportedRow(status) ==
    [ InsertRow(Payload(SourceA, Entry(1, "t2"), 0)) EXCEPT !.status = status ]

InitSeeded ==
    /\ now = expireDays + 1
    /\ protests \in { << >> } \cup { << ImportedRow(st) >> : st \in Statuses }
    /\ reports = [ i \in Ids |-> 0 ]
    /\ sources = OneSource
    /\ env = GoodEnv
    /\ feeds = [ k \in KeysOf(sources) |-> << Entry(1, "t2") >> ]
    /\ run = [ r \in Runs |-> IdleRun ]
    /\ started = 0
    /\ snap = NoSnap
    /\ page = NoPage
    /\ OtherIdle

\* Report intake: the report form beside the writers of an imported row: the
\* import endpoint, the administrator's page and the store's review rule.
NextReports ==
    \/ \E r \in MainRuns : ImportStep(r)
    \/ \E i \in Ids, s \in ButtonStatuses : setProtestStatus(i, s)
    \/ \E i \in Ids : submitReport(i)
    \/ \E i \in Ids : EnterReview(i)

SpecReports == InitSeeded /\ [][NextReports]_vars

\* Visibility: the readers, and the writers that decide a row's status.
NextView ==
    \/ \E u \in Organizers, t \in {"t1"} : CreateProtest(u, t)
    \/ \E i \in Ids, s \in ButtonStatuses : setProtestStatus(i, s)
    \/ \E i \in Ids : EnterReview(i)
    \/ ViewStep

SpecView == InitSeeded /\ [][NextView]_vars

\* The cap: one feed that lists about as many entries as the cap, and more;
\* every store call succeeds.
LongDoc(n) == [ i \in 1 .. n |-> Entry(i, "t1") ]
CapLengths == { FeedCap - 1, FeedCap, FeedCap + 1, FeedCap + 50 }

InitCap ==
    /\ now = 0
    /\ protests = << >>
    /\ reports = [ i \in Ids |-> 0 ]
    /\ sources = OneSource
    /\ env = GoodEnv
    /\ feeds \in { [ k \in KeysOf(OneSource) |-> LongDoc(n) ] : n \in CapLengths }
    /\ run = [ r \in Runs |-> IdleRun ]
    /\ started = 0
    /\ snap = NoSnap
    /\ page = NoPage
    /\ OtherIdle

NextCap ==
    \/ \E r \in MainRuns, ep \in Endpoints : Invoke(r, ep, TokenRequest)
    \/ \E r \in MainRuns : FetchOk(r)
    \/ \E r \in MainRuns : UpsertOk(r)
    \/ \E r \in MainRuns : SourceDone(r)
    \/ \E r \in MainRuns : Sweep(r)

SpecCap == InitCap /\ [][NextCap]_vars

\* The window: a feed whose entries start around both ends of the window of
\* a run at reading WindowNow, one entry 200 days ahead, one without a start.
WindowNow == 10
WindowDoc ==
    << Entry(1, "t1"),
       TimedEntry(2, "t1", WindowNow - WindowBack - 1),
       TimedEntry(3, "t1", WindowNow - WindowBack),
       TimedEntry(4, "t1", WindowNow + WindowAhead),
       TimedEntry(5, "t1", WindowNow + WindowAhead + 1),
       TimedEntry(6, "t1", WindowNow + 200) >>

InitWindow ==
    /\ now = WindowNow
    /\ protests = << >>
    /\ reports = [ i \in Ids |-> 0 ]
    /\ sources = OneSource
    /\ env = GoodEnv
    /\ feeds = [ k \in KeysOf(OneSource) |-> WindowDoc ]
    /\ run = [ r \in Runs |-> IdleRun ]
    /\ started = 0
    /\ snap = NoSnap
    /\ page = NoPage
    /\ OtherIdle

\* Every step of an invocation but its request.
ImportBody(r) ==
    \/ FetchOk(r)
    \/ FetchFail(r)
    \/ UpsertOk(r)
    \/ UpsertFail(r)
    \/ SourceDone(r)
    \/ Sweep(r)
    \/ SweepError(r)

NextWindow ==
    \/ \E r \in MainRuns, ep \in Endpoints : Invoke(r, ep, TokenRequest)
    \/ \E r \in MainRuns : ImportBody(r)

SpecWindow == InitWindow /\ [][NextWindow]_vars

\* The cap and the window together: a feed of n entries whose first `early`
\* entries start 200 days ahead, outside the window of a run at reading
\* WindowNow, and whose other entries start inside it.
InitCapWindow ==
    /\ now = WindowNow
    /\ protests = << >>
    /\ reports = [ i \in Ids |-> 0 ]
    /\ sources = OneSource
    /\ env = GoodEnv
    /\ feeds \in { [ k \in KeysOf(OneSource) |->
                        [ i \in 1 .. n |->
                            TimedEntry(i, "t1", IF i <= early THEN WindowNow + 200
                                                ELSE WindowNow + 20) ] ] :
                      n \in { FeedCap, FeedCap + 50 }, early \in { 0, 50 } }
    /\ run = [ r \in Runs |-> IdleRun ]
    /\ started = 0
    /\ snap = NoSnap
    /\ page = NoPage
    /\ OtherIdle

SpecCapWindow == InitCapWindow /\ [][NextCap]_vars

\* The endpoints under every environment and every caller: the secret set
\* or not, the source list malformed, empty, of one feed or of two, over a
\* table that holds a row old enough for a sweep to expire it.
EndpointDocs == [ a |-> << Entry(1, "t1"), Entry(2, "t1") >>,
                  b |-> << Entry(1, "t1") >> ]

InitEndpoint ==
    /\ now = expireDays
    /\ protests = << ImportedRow("active") >>
    /\ reports = [ i \in Ids |-> 0 ]
    /\ sources \in { << >> } \cup SourceConfigs
    /\ env \in Envs
    /\ feeds = [ k \in KeysOf(sources) |-> EndpointDocs[k] ]
    /\ run = [ r \in Runs |-> IdleRun ]
    /\ started = 0
    /\ snap = NoSnap
    /\ page = NoPage
    /\ OtherIdle

NextEndpoint ==
    \/ \E r \in MainRuns, ep \in Endpoints, req \in Requests : Invoke(r, ep, req)
    \/ \E r \in MainRuns : ImportBody(r)

SpecEndpoint == InitEndpoint /\ [][NextEndpoint]_vars

\* Concurrency: two invocations of the endpoint in flight together.
NextConc ==
    \/ \E r \in Runs : ImportStep(r)
    \/ \E k \in KeysOf(sources) : \E doc \in FeedDocs(k) : FeedChange(k, doc)
    \/ \E u \in Organizers, t \in {"t1"} : CreateProtest(u, t)

SpecConc == InitOne /\ [][NextConc]_vars

(***************************************************************************)
(* Properties.                                                             *)
(***************************************************************************)
\* The records the current feed documents list, within the per-feed cap.
Listed(row) ==
    \E s \in DOMAIN sources :
        LET limited == SeqTake(feeds[sources[s].key], FeedCap)
        IN \E j \in DOMAIN limited :
              /\ row.source_key = sources[s].key
              /\ row.external_id = limited[j].external_id

SameButSeen(a, b) ==
    [ a EXCEPT !.last_seen_at = NoTime ] = [ b EXCEPT !.last_seen_at = NoTime ]

\* A second fully successful invocation ends while the table of the first is
\* on record: nothing but that invocation wrote since, and no feed changed.
SecondRunEnds(r) == Sweep(r) /\ snap.valid /\ AllOk(run[r].results)

C2_UniqueKey ==
    \A i, j \in DOMAIN protests :
        /\ i # j
        /\ protests[i].source_key # NoText
        /\ protests[i].external_id # NoId
        => \/ protests[i].source_key # protests[j].source_key
           \/ protests[i].external_id # protests[j].external_id

\* Two invocations are in flight and each has upserted the feed's first entry.
C2_Witness ==
    /\ \A r \in Runs : run[r].pc = "upsert" /\ run[r].ei >= 2
    /\ \E i \in DOMAIN protests : protests[i].source_type = "import"

\* C3: no step of an import invocation changes a row whose source_type is
\* not import.
C3_OrganizerIsolation ==
    [][ (\E r \in Runs : ImportStep(r)) =>
          \A i \in DOMAIN protests :
              protests[i].source_type # "import" => protests'[i] = protests[i] ]_vars

\* An organizer row whose id is the external_id of an imported row, after an
\* invocation has swept.
C3_Witness ==
    /\ \E i, j \in DOMAIN protests :
          /\ protests[i].source_type = "organizer"
          /\ protests[j].source_type = "import"
          /\ protests[j].external_id = i
    /\ \E r \in Runs : run[r].pc = "done"

\* C4 as stated: an upsert leaves the status of every row that already
\* exists as it was.
C4_UpsertKeepsStatus ==
    [][ (\E r \in Runs : UpsertOk(r)) =>
          \A i \in DOMAIN protests : protests'[i].status = protests[i].status ]_vars

\* C5 as stated: a row whose status is inactive keeps that status, and a row
\* becomes inactive only in the expiry sweep.
C5_InactiveTerminal ==
    [][ \A i \in DOMAIN protests :
          /\ protests[i].status = "inactive" => protests'[i].status = "inactive"
          /\ protests[i].status # "inactive" /\ protests'[i].status = "inactive"
               => \E r \in Runs : Sweep(r) ]_vars

\* The status changes the moderation graph allows.
ModerationGraph ==
    { << "active", "under_review" >>, << "under_review", "active" >>,
      << "under_review", "hidden" >>, << "hidden", "active" >> }

\* C6 as stated: every status change the administrator's page makes is an
\* edge of the moderation graph.
C6_ModerationGraph ==
    [][ \A i \in Ids : \A s \in ButtonStatuses :
          setProtestStatus(i, s) /\ protests'[i].status # protests[i].status
            => << protests[i].status, protests'[i].status >> \in ModerationGraph ]_vars

C8_ReportKeepsStatus ==
    [][ (\E i \in Ids : submitReport(i)) =>
          \A j \in DOMAIN protests : protests'[j].status = protests[j].status ]_vars

\* An active row with three reports against it.
C8_Witness ==
    \E i \in DOMAIN protests :
        /\ protests[i].report_count = 3
        /\ protests[i].status = "active"

C10_PrivilegedVisibility ==
    page.kind = "detail" /\ page.protest # NoRow =>
        ( /\ page.protest.row.status # "active"
          /\ \/ page.viewer = page.protest.row.user_id
             \/ page.viewer \in Admins
          => Render(page) = "full" )

\* C11 as stated: what the detail read returns to a viewer who is neither
\* the organizer nor an administrator holds no row that is not active.
C11_ReadBoundary ==
    page.kind = "detail" =>
        ~ ( /\ page.protest # NoRow
            /\ page.protest.row.status # "active"
            /\ page.viewer # page.protest.row.user_id
            /\ page.viewer \notin Admins )

\* The keys of the first FeedCap normalized entries of feed k that pass the
\* filter of the invocation, in feed order.
AdmittedKeys(rr, k) ==
    LET events == icsToEvents(feeds[k]).events
        capped == [ j \in 1 .. (IF Len(events) < 200 THEN Len(events) ELSE 200)
                      |-> events[j] ]
        keep(ev) == rr.windowed => InWindow(ev, rr.nowIso)
        kept == SelectSeq(capped, keep)
    IN [ j \in DOMAIN kept |-> << k, kept[j].external_id >> ]

\* The keys the invocation has upserted for feed k, in order.
WrittenFor(rr, k) ==
    LET ofK(w) == w[1] = k IN SelectSeq(rr.written, ofK)

IsPrefix(a, b) == Len(a) <= Len(b) /\ a = SubSeq(b, 1, Len(a))

OkFor(rr, k) == \E j \in DOMAIN rr.results : rr.results[j].source = k /\ rr.results[j].ok

\* C12: what an invocation upserts for a feed is, in feed order, a part of
\* the feed's first 200 normalized entries, at most 200 of them; when the
\* feed's result is ok it is exactly those that pass the filter, which for a
\* feed of 250 in-range entries are the first 200.
C12_FeedCap ==
    \A r \in Runs : \A k \in KeysOf(sources) :
        /\ IsPrefix(WrittenFor(run[r], k), AdmittedKeys(run[r], k))
        /\ Len(WrittenFor(run[r], k)) <= 200
        /\ OkFor(run[r], k) => WrittenFor(run[r], k) = AdmittedKeys(run[r], k)

\* An invocation over a feed of 250 entries has ended: it wrote the first
\* 200, the last of them entry 200, and the table holds 200 rows.
C12_Witness ==
    \E r \in Runs :
        /\ run[r].pc = "done"
        /\ Len(feeds["a"]) = FeedCap + 50
        /\ Len(run[r].written) = FeedCap
        /\ run[r].written[FeedCap] = << "a", FeedCap >>
        /\ Len(protests) = FeedCap

\* C13: once a feed's result is ok, an entry among the feed's first 200 was
\* upserted by the invocation if and only if the invocation does not filter,
\* or the entry has no start, or its start t has
\* nowIso - 7 <= t <= nowIso + 180.
C13_TemporalWindow ==
    \A r \in Runs : \A k \in KeysOf(sources) :
        OkFor(run[r], k) =>
            LET events == icsToEvents(feeds[k]).events
            IN \A j \in 1 .. (IF Len(events) < FeedCap THEN Len(events) ELSE FeedCap) :
                  ( \E w \in DOMAIN run[r].written :
                        run[r].written[w] = << k, events[j].external_id >> )
                  <=> \/ ~ run[r].windowed
                      \/ events[j].start_iso = NoTime
                      \/ /\ run[r].nowIso - 7 <= events[j].start_iso
                         /\ events[j].start_iso <= run[r].nowIso + 180

\* A filtering invocation has ended well without writing entry 6, which
\* starts more than 180 days after the invocation read the clock and which
\* the table holds from an earlier invocation that does not filter.
C13_Witness ==
    \E r \in Runs :
        /\ run[r].pc = "done"
        /\ run[r].windowed
        /\ run[r].nowIso + WindowAhead < WindowNow + 200
        /\ OkFor(run[r], "a")
        /\ \A w \in DOMAIN run[r].written : run[r].written[w] # << "a", 6 >>
        /\ \E i \in DOMAIN protests :
              /\ protests[i].external_id = 6
              /\ protests[i].event_time = WindowNow + 200

\* C14: an expiry sweep sets status to inactive in exactly the import rows
\* last seen more than 45 days before the sweep, and changes nothing else:
\* not a row last seen 45 days ago or less, not a row of another source_type.
C14_ExpiryThreshold ==
    [][ \A r \in Runs : Sweep(r) =>
          /\ Len(protests') = Len(protests)
          /\ \A i \in DOMAIN protests :
                protests'[i] =
                    IF /\ protests[i].source_type = "import"
                       /\ protests[i].last_seen_at # NoTime
                       /\ now - protests[i].last_seen_at > 45
                    THEN [ protests[i] EXCEPT !.status = "inactive" ]
                    ELSE protests[i] ]_vars

\* After a sweep: an import row last seen 46 days ago is inactive and an
\* import row last seen 45 days ago is active.
C14_Witness ==
    /\ \E r \in Runs :
          run[r].pc = "done" /\ run[r].sweeps = 1 /\ ~ run[r].expireError
    /\ \E i, j \in DOMAIN protests :
          /\ protests[i].source_type = "import"
          /\ protests[i].status = "inactive"
          /\ now - protests[i].last_seen_at = expireDays + 1
          /\ protests[j].source_type = "import"
          /\ protests[j].status = "active"
          /\ now - protests[j].last_seen_at = expireDays

\* The invocation passed the check at the top of GET.
Passed(rr) == rr.pc # "idle" /\ Authorized(rr.ep, rr.req, env)

\* C15 as stated: every authorized invocation that has responded has
\* executed the sweep exactly once.
C15_AsStated ==
    \A r \in Runs : Passed(run[r]) /\ run[r].pc = "done" => run[r].sweeps = 1

\* C15 amended: an authorized invocation whose source list is well formed
\* and not empty executes the sweep exactly once, as its last step before the
\* response, after every configured feed has its result, whether the feeds
\* succeeded or failed and however many there are.
C15_SweepOncePerRun ==
    \A r \in Runs :
        /\ run[r].sweeps <= 1
        /\ run[r].sweeps = 1 =>
              run[r].pc = "done" /\ Len(run[r].results) = Len(sources)
        /\ ( /\ Passed(run[r])
             /\ run[r].pc = "done"
             /\ env.json = "ok"
             /\ Len(sources) > 0 ) => run[r].sweeps = 1

\* An invocation over two feeds has responded: both feeds failed and the
\* sweep ran once.
C15_Witness ==
    \E r \in Runs :
        /\ run[r].pc = "done"
        /\ Len(sources) = 2
        /\ Len(run[r].results) = 2
        /\ \A j \in DOMAIN run[r].results : ~ run[r].results[j].ok
        /\ run[r].sweeps = 1

\* The invocation reached the loop over the sources.
InLoop(rr) == rr.pc \in {"fetch", "upsert", "sweep"} \/ rr.http = 200

\* C16: a failed fetch or parse of one source is followed by the fetch of
\* the next source; the results hold one entry per source processed, in
\* configuration order, a failed one with ok = false and an error, and the
\* response holds one per configured source.
C16_FailureIsolation ==
    /\ [](\A r \in Runs : InLoop(run[r]) =>
            /\ Len(run[r].results) <= Len(sources)
            /\ run[r].pc \in {"sweep", "done"} =>
                  Len(run[r].results) = Len(sources)
            /\ \A j \in DOMAIN run[r].results :
                  /\ run[r].results[j].source = sources[j].key
                  /\ ~ run[r].results[j].ok => run[r].results[j].error # "")
    /\ [][ \A r \in Runs : FetchFail(r) /\ run[r].si < Len(sources) =>
             /\ run'[r].pc = "fetch"
             /\ run'[r].si = run[r].si + 1 ]_vars

\* The first of two sources failed at its fetch, the second was fetched and
\* its entry upserted, and the response lists both in order.
C16_Witness ==
    \E r \in Runs :
        /\ run[r].pc = "done"
        /\ Len(run[r].results) = 2
        /\ ~ run[r].results[1].ok
        /\ run[r].results[1].error = "fetch"
        /\ run[r].results[2].ok
        /\ run[r].written = << << "b", 1 >> >>

\* C17: an upsert error writes nothing, records the feed's result with
\* ok = false and moves to the next feed or, after the last, to the sweep;
\* of a feed that failed so, the invocation wrote the entries before the
\* failing one and none from it on.
C17_UpsertError ==
    /\ [](\A r \in Runs : \A j \in DOMAIN run[r].results :
            ~ run[r].results[j].ok /\ run[r].results[j].error = "upsert" =>
                LET k == run[r].results[j].source
                IN /\ IsPrefix(WrittenFor(run[r], k), AdmittedKeys(run[r], k))
                   /\ Len(WrittenFor(run[r], k)) < Len(AdmittedKeys(run[r], k)))
    /\ [][ \A r \in Runs : UpsertFail(r) =>
             /\ protests' = protests
             /\ run'[r].written = run[r].written
             /\ Len(run'[r].results) = Len(run[r].results) + 1
             /\ ~ run'[r].results[Len(run'[r].results)].ok
             /\ run'[r].results[Len(run'[r].results)].source = sources[run[r].si].key
             /\ IF run[r].si < Len(sources)
                THEN run'[r].pc = "fetch" /\ run'[r].si = run[r].si + 1
                ELSE run'[r].pc = "sweep" ]_vars

\* The upsert of the second entry of feed a failed: its first entry is
\* written, its second is not, and feed b was processed after it.
C17_Witness ==
    \E r \in Runs :
        /\ run[r].pc = "done"
        /\ Len(run[r].results) = 2
        /\ ~ run[r].results[1].ok
        /\ run[r].results[1].error = "upsert"
        /\ run[r].results[2].ok
        /\ run[r].written = << << "a", 1 >>, << "b", 1 >> >>

\* C18: under a malformed source list no invocation fetches, upserts or
\* sweeps, and the table stays as it was.
C18_ConfigFatal ==
    env.json # "ok" =>
        /\ protests = << ImportedRow("active") >>
        /\ \A r \in Runs :
              /\ run[r].pc \in {"idle", "done"}
              /\ run[r].http \in {0, 401, 500}
              /\ run[r].sweeps = 0
              /\ run[r].written = << >>
              /\ run[r].results = << >>

\* A caller with the token met a source list that is not JSON: the
\* invocation ended in the exception, and the old row was not swept.
C18_Witness ==
    /\ env.json = "not_json"
    /\ Len(sources) > 0
    /\ \E r \in Runs :
          /\ run[r].pc = "done"
          /\ run[r].req.token = Secret
          /\ run[r].http = 500
    /\ protests = << ImportedRow("active") >>

\* The caller sent the configured secret, as the token or as the header.
SuppliesSecret(req) ==
    /\ env.secret # ""
    /\ req.token = env.secret \/ req.cron = env.secret

\* C19 as stated: an invocation whose caller did not send the configured
\* secret gets 401 and makes no store call.
C19_Authorization ==
    \A r \in Runs :
        run[r].pc # "idle" /\ ~ SuppliesSecret(run[r].req) =>
            /\ run[r].pc = "done"
            /\ run[r].http = 401
            /\ run[r].sweeps = 0
            /\ run[r].written = << >>

\* ---------------------------------------------------------------------
\* Documents with sub-entries that lack a uid or whose start cannot be
\* converted, served without network failures.
BadEntry(u) == TimedEntry(u, "t1", BadTime)

NormalizeDocs ==
    { << Entry(1, "t1"), Entry(2, "t1") >>,
      << Entry(1, "t1"), BadEntry(2) >>,
      << BadEntry(1), Entry(2, "t1") >>,
      << Entry(1, "t1"), BadEntry(NoId), Entry(2, "t1") >>,
      << Entry(NoId, "t1"), Entry(1, "t1") >> }

InitNormalize ==
    /\ now = 0
    /\ protests = << >>
    /\ reports = [ i \in Ids |-> 0 ]
    /\ sources \in SourceConfigs
    /\ env = GoodEnv
    /\ feeds \in [ KeysOf(sources) -> NormalizeDocs ]
    /\ run = [ r \in Runs |-> IdleRun ]
    /\ started = 0
    /\ snap = NoSnap
    /\ page = NoPage
    /\ OtherIdle

NextNormalize ==
    \/ \E r \in MainRuns : StartRun(r)
    \/ \E r \in MainRuns : FetchOk(r)
    \/ \E r \in MainRuns : ParseFail(r)
    \/ \E r \in MainRuns : UpsertOk(r)
    \/ \E r \in MainRuns : SourceDone(r)
    \/ \E r \in MainRuns : Sweep(r)

SpecNormalize == InitNormalize /\ [][NextNormalize]_vars

\* A sub-entry that can be read and converted.
WellFormed(ev) == HasUid(ev) /\ ev.start_iso # BadTime

\* One sub-entry of the document fails in conversion, another is well formed.
OneMalformed(doc) ==
    /\ Cardinality({ j \in DOMAIN doc : HasUid(doc[j]) /\ doc[j].start_iso = BadTime }) = 1
    /\ \E j \in DOMAIN doc : WellFormed(doc[j])

\* C20 as stated: of a document with one malformed sub-entry the normalizer
\* returns the records of the well-formed ones, and the feed's result in a
\* finished invocation is ok.
C20_MalformedSkipped ==
    \A r \in Runs : \A j \in DOMAIN run[r].results :
        LET doc == feeds[run[r].results[j].source]
        IN OneMalformed(doc) =>
             /\ icsToEvents(doc).ok
             /\ icsToEvents(doc).events = SelectSeq(doc, WellFormed)
             /\ run[r].results[j].ok

\* ---------------------------------------------------------------------
\* Documents whose vevents carry raw uids: padded, blank, empty, missing.
InitUid ==
    /\ now = 0
    /\ protests = << >>
    /\ reports = [ i \in Ids |-> 0 ]
    /\ sources \in SourceConfigs
    /\ env = GoodEnv
    /\ feeds \in [ KeysOf(sources) ->
                      { << RawEvent({ << " ", "1", " " >> }), RawEvent({}),
                           RawEvent({ << " " >> }), RawEvent({ << "2" >> }) >>,
                        << RawEvent({ << >> }), RawEvent({ << " ", " " >> }) >>,
                        << RawEvent({ << "1" >> }) >>,
                        << RawEvent({}), RawEvent({ << "2", " " >> }) >> } ]
    /\ run = [ r \in Runs |-> IdleRun ]
    /\ started = 0
    /\ snap = NoSnap
    /\ page = NoPage
    /\ OtherIdle

NextUid ==
    \/ \E r \in MainRuns : StartRun(r)
    \/ \E r \in MainRuns : FetchOk(r)
    \/ \E r \in MainRuns : UpsertOk(r)
    \/ \E r \in MainRuns : SourceDone(r)
    \/ \E r \in MainRuns : Sweep(r)

SpecUid == InitUid /\ [][NextUid]_vars

\* The uid property is missing or holds blanks only.
BlankUid(uid) == \A t \in uid : \A i \in DOMAIN t : t[i] = " "

\* The external_id values that a blank text would get if it were kept.
BlankCodes == { NoId, 3, 12 }

\* C21: a vevent whose uid is missing or empty after trimming is not in the
\* normalizer's output: the output has one record per vevent with a
\* non-blank uid, each with a non-empty external_id; no entry taken by an
\* invocation and no row of the table carries the id of a blank text.
C21_NoIdNoRecord ==
    /\ \A k \in DOMAIN feeds :
          LET out == icsToEvents(feeds[k]).events
          IN /\ Len(out) = Cardinality({ j \in DOMAIN feeds[k] :
                                           ~ BlankUid(feeds[k][j].uid) })
             /\ \A j \in DOMAIN out : out[j].external_id \notin BlankCodes
    /\ \A r \in Runs : \A j \in DOMAIN run[r].limited :
          run[r].limited[j].external_id \notin BlankCodes
    /\ \A r \in Runs : \A j \in DOMAIN run[r].written :
          run[r].written[j][2] \notin BlankCodes
    /\ \A i \in DOMAIN protests : protests[i].external_id \notin BlankCodes

\* An invocation went through a document with a padded uid, a missing uid,
\* a blank uid and a plain uid: the table holds the rows 1 and 2 only.
C21_Witness ==
    \E r \in Runs :
        /\ run[r].pc = "done"
        /\ Len(feeds["a"]) = 4
        /\ run[r].written = << << "a", 1 >>, << "a", 2 >> >>
        /\ Len(protests) = 2

\* ---------------------------------------------------------------------
\* The text helpers: stripHtml and clampText on a description.
\* Every text of at most n characters over a letter of the class [:space, one
\* outside it, the blank and the characters the patterns look for.
Texts(n) == UNION { [ 1 .. k -> { "a", "b", " ", "<", ">", "]" } ] : k \in 0 .. n }

Rep(c, n) == [ i \in 1 .. n |-> c ]

Inked(c) == c # ""

\* .replace(/<[^>]*>/g, " "): each match becomes one blank.  Position i lies
\* in a match when a "<" is at or before it with no ">" between, and a ">"
\* is at or after it.
ReplaceTags(s) ==
    LET InTag(i) ==
            /\ \E p \in 1 .. i : s[p] = "<" /\ \A q \in p .. (i - 1) : s[q] # ">"
            /\ \E q \in i .. Len(s) : s[q] = ">"
    IN SelectSeq([ i \in DOMAIN s |->
                     IF InTag(i) THEN (IF s[i] = ">" THEN " " ELSE "") ELSE s[i] ],
                 Inked)

\* .replace(/\s+/g, " "): each run of blanks becomes one blank.
CollapseBlanks(s) ==
    SelectSeq([ i \in DOMAIN s |->
                  IF s[i] = " " /\ i > 1 /\ s[i - 1] = " " THEN "" ELSE s[i] ],
              Inked)

\* .replace(/[[:space:]]+/g, " "): JavaScript has no POSIX classes, the
\* pattern is one character of [:space followed by one or more "]"; each
\* such match becomes one blank, blanks are left as they are.
\* ClassChars are the characters of the class as JavaScript reads it;
\* position i is in a tail when it is a "]" of a run of "]" that follows a
\* character of the class.
CollapseBracketClass(s) ==
    LET ClassChars == { "[", ":", "s", "p", "a", "c", "e" }
        InBracketTail(i) ==
            /\ s[i] = "]"
            /\ \E p \in 1 .. (i - 1) :
                  s[p] \in ClassChars /\ \A q \in (p + 1) .. i : s[q] = "]"
    IN SelectSeq([ i \in DOMAIN s |->
                     IF s[i] \in ClassChars /\ i < Len(s) /\ s[i + 1] = "]" THEN " "
                     ELSE IF InBracketTail(i) THEN "" ELSE s[i] ],
                 Inked)

stripHtml(variant, s) ==
    Trim(IF variant = "run" THEN CollapseBracketClass(ReplaceTags(s))
         ELSE CollapseBlanks(ReplaceTags(s)))

clampText(variant, s) ==
    LET t == stripHtml(variant, s)
    IN IF Len(t) <= ClampMax THEN t ELSE SubSeq(t, 1, ClampMax)

\* const desc = clampText(e.description || "", 2000) || null: the empty
\* text is stored as NULL.
ReadDescription ==
    /\ descr.pc = "given"
    /\ LET t == clampText(descr.variant, descr.text)
       IN descr' = [ descr EXCEPT !.pc = "done", !.isNull = (t = << >>), !.out = t ]
    /\ UNCHANGED << importVars, fetch, comments, storage, tabs, clock >>

\* The import and the readers at rest.
ImportIdle ==
    /\ now = 0
    /\ protests = << >>
    /\ reports = [ i \in Ids |-> 0 ]
    /\ sources = OneSource
    /\ env = GoodEnv
    /\ feeds = [ k \in KeysOf(OneSource) |-> << >> ]
    /\ run = [ r \in Runs |-> IdleRun ]
    /\ started = 0
    /\ snap = NoSnap
    /\ page = NoPage

\* A description given to one of the three copies of the helpers
\* (/api/import/run, the know-your-rights endpoint, the third import route):
\* a short text, or one around the length limit, without and with blanks
\* near the cut.
InitText ==
    /\ ImportIdle
    /\ descr \in [ pc : { "given" }, variant : { "run", "kyr", "part014" },
                   text : Texts(MaxText) \cup
                          { Rep("b", ClampMax - 1), Rep("b", ClampMax),
                            Rep("b", ClampMax + 1),
                            Rep("b", ClampMax - 1) \o << " ", "b" >>,
                            Rep("b", ClampMax - 2) \o << " ", " ", "b", "b" >> },
                   isNull : { FALSE }, out : { << >> } ]
    /\ fetch = NoFetch
    /\ comments = << >>
    /\ storage = NoStorage
    /\ tabs = << >>
    /\ clock = 0

NextText == ReadDescription

SpecText == InitText /\ [][NextText]_vars

\* The text holds "<", then later ">": a markup tag.
HasTag(t) ==
    \E i \in DOMAIN t : t[i] = "<" /\ \E j \in (i + 1) .. Len(t) : t[j] = ">"

\* Two blanks side by side.
HasBlankRun(t) == \E i \in 1 .. (Len(t) - 1) : t[i] = " " /\ t[i + 1] = " "

\* C22 as stated: a description that went through the helpers holds no
\* markup tag and no run of more than one blank, and is at most 2000
\* characters long.
C22_DescriptionNormalized ==
    descr.pc = "done" =>
        /\ ~ HasTag(descr.out)
        /\ ~ HasBlankRun(descr.out)
        /\ Len(descr.out) <= 2000

\* ---------------------------------------------------------------------
\* The comments of one event's detail page.  The browser clock is read in
\* half seconds, so that Math.floor((now - last) / 1000) has something to
\* round.
TicksPerSecond == 2
CooldownTicks == COMMENT_COOLDOWN_SECONDS * TicksPerSecond

\* The detail page of the event open in two tabs of one browser.
Tabs == { "t1", "t2" }

\* The denylist of violatesStandards.
BannedWords ==
    { << "k", "i", "l", "l", " ", "y", "o", "u", "r", "s", "e", "l", "f" >>,
      << "g", "a", "s", " ", "t", "h", "e" >>,
      << "l", "y", "n", "c", "h" >>,
      << "r", "a", "p", "e" >>,
      << "n", "a", "z", "i" >>,
      << "k", "k", "k" >> }

\* What a visitor types as a name and as a comment.
AuthorNames == { << "A", "l", " " >>, << "K", "K", "K" >>, << >> }
Bodies == { << " ", "h", "i" >>, << "G", "r", "a", "p", "e" >>, << " " >> }

\* String.prototype.toLowerCase on the characters the inputs use.
ToLowerCase(t) ==
    [ i \in DOMAIN t |-> IF t[i] = "G" THEN "g" ELSE IF t[i] = "K" THEN "k" ELSE t[i] ]

\* String.prototype.includes.
Includes(t, w) ==
    \E i \in 1 .. (Len(t) - Len(w) + 1) : SubSeq(t, i, i + Len(w) - 1) = w

\* A denylist check that compares the text as typed.
violatesStandardsAsTyped(text) == \E w \in BannedWords : Includes(text, w)

violatesStandards(text) == \E w \in BannedWords : Includes(ToLowerCase(text), w)

\* secondsRemaining: a missing key reads as time 0, long ago.
secondsRemaining(st, t) ==
    LET last == IF st.ts = NoTime THEN 0 ELSE st.ts
        diff == (t - last) \div TicksPerSecond
    IN IF COMMENT_COOLDOWN_SECONDS - diff > 0 THEN COMMENT_COOLDOWN_SECONDS - diff ELSE 0

\* A page as loaded: postComment not running.
ReadyTab(organizer) ==
    [ pc |-> "ready", msg |-> "", isOrganizer |-> organizer,
      draft |-> [ author_name |-> << >>, body |-> << >> ], list |-> {} ]

\* The rows a select on the comments table returns: deleted rows are gone.
LiveComments(table) ==
    { [ id |-> table[i].id, status |-> table[i].status ] :
        i \in { j \in DOMAIN table : table[j].status # "deleted" } }

\* postComment up to the insert: the cooldown check (skipped when
\* localStorage throws), the required fields, the denylist.  The button is
\* taken as enabled: cooldownLeft is per tab and 0 in a tab loaded before
\* the last post.
PostSubmit(t, name, body) ==
    /\ tabs[t].pc = "ready"
    /\ LET remaining == secondsRemaining(storage, clock)
       IN tabs' = [ tabs EXCEPT ![t] =
            IF storage.works /\ remaining > 0
            THEN [ @ EXCEPT !.msg = "wait" ]
            ELSE IF Trim(name) = << >> \/ Trim(body) = << >>
            THEN [ @ EXCEPT !.msg = "required" ]
            ELSE IF violatesStandards(body) \/ violatesStandards(name)
            THEN [ @ EXCEPT !.msg = "standards" ]
            ELSE [ @ EXCEPT !.msg = "", !.pc = "insert",
                            !.draft = [ author_name |-> Trim(name),
                                        body |-> Trim(body) ] ] ]
    /\ UNCHANGED << importVars, descr, fetch, comments, storage, clock >>

\* The store inserts the row.
InsertOk(t) ==
    /\ tabs[t].pc = "insert"
    /\ Len(comments) < MaxComments
    /\ comments' = Append(comments,
                     [ id |-> Len(comments) + 1, created_at |-> clock,
                       author_name |-> tabs[t].draft.author_name,
                       body |-> tabs[t].draft.body, status |-> "visible" ])
    /\ tabs' = [ tabs EXCEPT ![t].pc = "inserted" ]
    /\ UNCHANGED << importVars, descr, fetch, storage, clock >>

\* The insert fails: the error is shown, nothing else happens.
InsertError(t) ==
    /\ tabs[t].pc = "insert"
    /\ tabs' = [ tabs EXCEPT ![t].pc = "ready", ![t].msg = "error" ]
    /\ UNCHANGED << importVars, descr, fetch, comments, storage, clock >>

\* The insert's answer arrives: the form is cleared, the time is stored
\* (unless localStorage throws), the comments are read again.
PostRecord(t) ==
    /\ tabs[t].pc = "inserted"
    /\ storage' = IF storage.works THEN [ storage EXCEPT !.ts = clock ] ELSE storage
    /\ tabs' = [ tabs EXCEPT ![t].pc = "ready",
                             ![t].draft = [ author_name |-> << >>, body |-> << >> ],
                             ![t].list = LiveComments(comments) ]
    /\ UNCHANGED << importVars, descr, fetch, comments, clock >>

\* Time passes in the browser.  A post lasts far less than the cooldown:
\* time passes while no post is under way, by the cooldown or by half a
\* second less.
Wait(d) ==
    /\ \A t \in DOMAIN tabs : tabs[t].pc = "ready"
    /\ clock + d <= MaxClock
    /\ clock' = clock + d
    /\ UNCHANGED << importVars, descr, fetch, comments, storage, tabs >>

\* The update matches the row with that id, if it is still there.
WithStatus(table, id, status) ==
    [ i \in DOMAIN table |->
        IF table[i].id = id /\ table[i].status # "deleted"
        THEN [ table[i] EXCEPT !.status = status ]
        ELSE table[i] ]

\* Hide or Unhide pressed by whoever has the page open.
setCommentStatusUngated(t, id, status) ==
    /\ tabs[t].pc = "ready"
    /\ \E c \in tabs[t].list :
          /\ c.id = id
          /\ \/ c.status = "visible" /\ status = "hidden"
             \/ c.status = "hidden" /\ status = "visible"
    /\ comments' = WithStatus(comments, id, status)
    /\ tabs' = [ tabs EXCEPT ![t].msg = "", ![t].list = LiveComments(comments') ]
    /\ UNCHANGED << importVars, descr, fetch, storage, clock >>

\* setCommentStatus behind its buttons: Hide on a comment the page lists
\* as visible, Unhide on one it lists as hidden, both rendered for the
\* organizer only; then refreshComments.
setCommentStatus(t, id, status) ==
    /\ tabs[t].pc = "ready"
    /\ tabs[t].isOrganizer
    /\ \E c \in tabs[t].list :
          /\ c.id = id
          /\ \/ c.status = "visible" /\ status = "hidden"
             \/ c.status = "hidden" /\ status = "visible"
    /\ comments' = WithStatus(comments, id, status)
    /\ tabs' = [ tabs EXCEPT ![t].msg = "", ![t].list = LiveComments(comments') ]
    /\ UNCHANGED << importVars, descr, fetch, storage, clock >>

\* deleteComment behind its button; the row is gone from every select.
deleteComment(t, id) ==
    /\ tabs[t].pc = "ready"
    /\ tabs[t].isOrganizer
    /\ \E c \in tabs[t].list : c.id = id
    /\ comments' = WithStatus(comments, id, "deleted")
    /\ tabs' = [ tabs EXCEPT ![t].msg = "", ![t].list = LiveComments(comments') ]
    /\ UNCHANGED << importVars, descr, fetch, storage, clock >>

\* The page is loaded again: the comments are read.
LoadComments(t) ==
    /\ tabs[t].pc = "ready"
    /\ tabs[t].list # LiveComments(comments)
    /\ tabs' = [ tabs EXCEPT ![t].msg = "", ![t].list = LiveComments(comments) ]
    /\ UNCHANGED << importVars, descr, fetch, comments, storage, clock >>

\* Visitors post from two tabs of a browser.
InitComments ==
    /\ ImportIdle
    /\ descr = NoDescr
    /\ fetch = NoFetch
    /\ comments = << >>
    /\ storage \in [ works : BOOLEAN, ts : { NoTime } ]
    /\ tabs = [ t \in Tabs |-> ReadyTab(FALSE) ]
    /\ clock = CooldownTicks

NextComments ==
    \/ \E t \in Tabs, name \in AuthorNames, body \in Bodies : PostSubmit(t, name, body)
    \/ \E t \in Tabs : InsertOk(t)
    \/ \E t \in Tabs : InsertError(t)
    \/ \E t \in Tabs : PostRecord(t)
    \/ \E d \in { CooldownTicks - 1, CooldownTicks } : Wait(d)

SpecComments == InitComments /\ [][NextComments]_vars

\* One visitor posts from one page, with every kind of input.
MainTabs == { "t1" }

InitPolicy ==
    /\ ImportIdle
    /\ descr = NoDescr
    /\ fetch = NoFetch
    /\ comments = << >>
    /\ storage \in [ works : BOOLEAN, ts : { NoTime } ]
    /\ tabs = [ t \in MainTabs |-> ReadyTab(FALSE) ]
    /\ clock = CooldownTicks

NextPolicy ==
    \/ \E t \in MainTabs, name \in AuthorNames, body \in Bodies : PostSubmit(t, name, body)
    \/ \E t \in MainTabs : InsertOk(t)
    \/ \E t \in MainTabs : InsertError(t)
    \/ \E t \in MainTabs : PostRecord(t)
    \/ \E d \in { CooldownTicks - 1, CooldownTicks } : Wait(d)

SpecPolicy == InitPolicy /\ [][NextPolicy]_vars

\* C23 as stated, for a browser whose localStorage works: two accepted
\* comments are at least 20 seconds apart; a post inside the cooldown is
\* rejected and inserts nothing; the stored time changes only when a post
\* succeeded.
C23_Cooldown ==
    /\ [](storage.works => \A i, j \in DOMAIN comments :
            i < j => comments[j].created_at - comments[i].created_at >= 20 * 2)
    /\ [][ \A t \in Tabs, name \in AuthorNames, body \in Bodies :
             PostSubmit(t, name, body) /\ storage.ts # NoTime
                 /\ clock - storage.ts < 20 * 2 =>
                    /\ tabs'[t].pc = "ready"
                    /\ tabs'[t].msg = "wait" ]_vars
    /\ [][ storage' # storage => \E t \in Tabs : tabs[t].pc = "inserted" ]_vars

\* The text holds a word of the denylist, whatever its case.
Denylisted(text) ==
    \E w \in BannedWords : \E i \in 1 .. (Len(text) - Len(w) + 1) :
        ToLowerCase(SubSeq(text, i, i + Len(w) - 1)) = w

\* postComment gets as far as the denylist: no cooldown is running and
\* name and comment are not blank.
ReachesDenylist(name, body) ==
    /\ ~ storage.works \/ storage.ts = NoTime \/ clock - storage.ts >= 20 * 2
    /\ \E i \in DOMAIN name : name[i] # " "
    /\ \E i \in DOMAIN body : body[i] # " "

\* The inputs with a denylisted name or comment.
DenylistedInputs ==
    { in \in AuthorNames \X Bodies : Denylisted(in[1]) \/ Denylisted(in[2]) }

InitCommentModeration ==
    /\ ImportIdle
    /\ descr = NoDescr
    /\ fetch = NoFetch
    /\ comments = << >>
    /\ storage = NoStorage
    /\ tabs \in [ Tabs -> { ReadyTab(TRUE), ReadyTab(FALSE) } ]
    /\ clock = CooldownTicks

NextCommentModeration ==
    \/ \E t \in Tabs : PostSubmit(t, << "A", "l", " " >>, << " ", "h", "i" >>)
    \/ \E t \in Tabs : InsertOk(t)
    \/ \E t \in Tabs : PostRecord(t)
    \/ \E t \in Tabs, id \in 1 .. MaxComments, status \in { "visible", "hidden" } :
          setCommentStatus(t, id, status)
    \/ \E t \in Tabs, id \in 1 .. MaxComments : deleteComment(t, id)
    \/ \E t \in Tabs : LoadComments(t)
    \/ Wait(CooldownTicks)

SpecCommentModeration == InitCommentModeration /\ [][NextCommentModeration]_vars

\* C25: a comment is created visible; its status is visible or hidden until
\* it is deleted; a step that changes the status of a comment or deletes it
\* is taken on a page of the organizer that lists the comment, and no other
\* page changes in it; a deleted comment stays deleted and enters no page's
\* list again.
C25_CommentModeration ==
    /\ [](\A i \in DOMAIN comments :
            comments[i].status \in { "visible", "hidden", "deleted" })
    /\ [][ Len(comments') >= Len(comments) ]_vars
    /\ [][ \A i \in DOMAIN comments' :
             i \notin DOMAIN comments => comments'[i].status = "visible" ]_vars
    /\ [][ \A i \in DOMAIN comments :
             comments'[i].status # comments[i].status =>
                \E t \in DOMAIN tabs :
                    /\ tabs[t].isOrganizer
                    /\ \E c \in tabs[t].list : c.id = comments[i].id
                    /\ \A u \in DOMAIN tabs : u # t => tabs'[u] = tabs[u] ]_vars
    /\ [][ \A i \in DOMAIN comments :
             comments[i].status = "deleted" =>
                /\ comments'[i] = comments[i]
                /\ \A t \in DOMAIN tabs : \A c \in tabs'[t].list :
                      c.id = comments[i].id => c \in tabs[t].list ]_vars

\* One comment was deleted and another hidden while the page of somebody
\* who is not the organizer was open.
C25_Witness ==
    /\ \E i \in DOMAIN comments : comments[i].status = "deleted"
    /\ \E i \in DOMAIN comments : comments[i].status = "hidden"
    /\ \E t \in DOMAIN tabs : ~ tabs[t].isOrganizer
    /\ \E t \in DOMAIN tabs : tabs[t].isOrganizer

\* ---------------------------------------------------------------------
\* fetchIcs, one call.  The three routes have their own copy: "run" checks
\* the URL and tries twice, "part014" tries once and looks for the calendar
\* marker, "kyr" tries once and checks the status only.

\* What the network does with one request: no connection, no answer within
\* the time limit, an error status, a 2xx answer with a body of fewer than
\* 10 characters, a longer body without BEGIN:VCALENDAR, a calendar.
Outcomes == { "neterr", "timeout", "status404", "status500",
              "ok_small", "ok_nomarker", "ok_calendar" }

\* /^https?:\/\//i.test(u)
IsHttpUrl(u) ==
    LET SchemeLower(c) ==
            IF c = "H" THEN "h" ELSE IF c = "T" THEN "t" ELSE IF c = "P" THEN "p"
            ELSE IF c = "S" THEN "s" ELSE c
        low == [ i \in DOMAIN u |-> SchemeLower(u[i]) ]
    IN \/ Len(u) >= 7 /\ SubSeq(low, 1, 7) = << "h", "t", "t", "p", ":", "/", "/" >>
       \/ Len(u) >= 8 /\ SubSeq(low, 1, 8) = << "h", "t", "t", "p", "s", ":", "/", "/" >>

\* The message an attempt that failed leaves: err.name === "AbortError" ?
\* "timeout" : err.message.
AttemptMessage(o) ==
    IF o = "timeout" THEN "timeout"
    ELSE IF o = "neterr" THEN "fetch failed"
    ELSE IF o = "ok_small" THEN "ICS response was empty"
    ELSE "ICS fetch failed (http)"

NoReason == [ text |-> "", attempt1 |-> "", attempt2 |-> "" ]
Reason(text) == [ NoReason EXCEPT !.text = text ]

FetchCalled(variant, url) ==
    [ pc |-> "called", variant |-> variant, url |-> url, attempts |-> << >>,
      result |-> "none", reason |-> NoReason ]

Thrown(f, reason) == [ f EXCEPT !.pc = "done", !.result = "thrown", !.reason = reason ]
Returned(f) == [ f EXCEPT !.pc = "done", !.result = "returned" ]
Attempted(f, headers, o) ==
    [ f EXCEPT !.attempts = Append(@, [ headers |-> headers, outcome |-> o ]) ]

\* The first attempt of a copy.
FirstAttempt(f, o) ==
    IF f.variant = "run"
    THEN LET g == Attempted(f, "none", o)
         IN IF o \in { "ok_calendar", "ok_nomarker" } THEN Returned(g)
            ELSE [ g EXCEPT !.pc = "attempt2", !.reason.attempt1 = AttemptMessage(o) ]
    ELSE IF f.variant = "part014"
    THEN LET g == Attempted(f, "bot", o)
         IN IF o = "neterr" THEN Thrown(g, Reason("fetch failed (network)"))
            ELSE IF o \in { "status404", "status500" } THEN Thrown(g, Reason("ICS fetch failed (http)"))
            ELSE IF o # "ok_calendar" THEN Thrown(g, Reason("ICS fetch returned non-calendar content"))
            ELSE Returned(g)
    ELSE LET g == Attempted(f, "none", o)
         IN IF o = "neterr" THEN Thrown(g, Reason("fetch failed"))
            ELSE IF o \in { "status404", "status500" } THEN Thrown(g, Reason("ICS fetch failed (http)"))
            ELSE Returned(g)

\* The second attempt of /api/import/run, with User-Agent and Accept.
SecondAttempt(f, o) ==
    LET g == Attempted(f, "browser", o)
    IN IF o \in { "ok_calendar", "ok_nomarker" } THEN Returned(g)
       ELSE Thrown(g, [ text |-> "fetch failed (network)",
                        attempt1 |-> f.reason.attempt1,
                        attempt2 |-> AttemptMessage(o) ])

\* fetchIcs up to its first request: /api/import/run throws on an empty
\* url and on one that is not http(s); in the other copies fetch itself
\* rejects such a url before any request.
FetchCall ==
    /\ fetch.pc = "called"
    /\ LET trimmed == Trim(fetch.url)
       IN fetch' =
            IF fetch.variant = "run" /\ trimmed = << >>
            THEN Thrown(fetch, Reason("ICS URL is empty"))
            ELSE IF fetch.variant = "run" /\ ~ IsHttpUrl(trimmed)
            THEN Thrown(fetch, Reason("ICS URL must start with http(s)"))
            ELSE IF ~ IsHttpUrl(trimmed)
            THEN Thrown(fetch, Reason(IF fetch.variant = "part014"
                                      THEN "fetch failed (network)"
                                      ELSE "Failed to parse URL"))
            ELSE [ fetch EXCEPT !.pc = "attempt1" ]
    /\ UNCHANGED << importVars, descr, comments, storage, tabs, clock >>

FetchFirst(o) ==
    /\ fetch.pc = "attempt1"
    /\ fetch.variant # "run" => o # "timeout"
    /\ fetch' = FirstAttempt(fetch, o)
    /\ UNCHANGED << importVars, descr, comments, storage, tabs, clock >>

FetchSecond(o) ==
    /\ fetch.pc = "attempt2"
    /\ fetch' = SecondAttempt(fetch, o)
    /\ UNCHANGED << importVars, descr, comments, storage, tabs, clock >>

InitFetch ==
    /\ ImportIdle
    /\ descr = NoDescr
    /\ fetch \in { FetchCalled(v, u) :
                      v \in { "run", "part014", "kyr" },
                      u \in { << >>,
                              << " " >>,
                              << "f", "t", "p", ":", "/", "/", "x" >>,
                              << "h", "t", "t", "p", ":", "/", "/", "x" >>,
                              << "h", "t", "t", "p", "s", ":", "/", "/", "x" >>,
                              << "H", "T", "T", "P", ":", "/", "/", "x" >>,
                              << " ", "h", "t", "t", "p", ":", "/", "/", "x", " " >> } }
    /\ comments = << >>
    /\ storage = NoStorage
    /\ tabs = << >>
    /\ clock = 0

NextFetch ==
    \/ FetchCall
    \/ \E o \in Outcomes : FetchFirst(o)
    \/ \E o \in Outcomes : FetchSecond(o)

SpecFetch == InitFetch /\ [][NextFetch]_vars

\* The text starts, blanks aside, with http:// or https:// in any case.
ValidUrl(u) ==
    \E i \in DOMAIN u :
        /\ \A j \in 1 .. (i - 1) : u[j] = " "
        /\ u[i] \in { "h", "H" }
        /\ IsHttpUrl(SubSeq(u, i, Len(u)))

\* C26 as stated, for the two copies of fetchIcs it names: at most two
\* requests; a second request, with the browser headers, if and only if
\* the first met an error status, a network error or a timeout; no request
\* for a url that is empty or not http(s).
C26_RetryProtocol ==
    fetch.pc = "done" /\ fetch.variant \in { "run", "part014" } =>
        /\ Len(fetch.attempts) <= 2
        /\ ~ ValidUrl(fetch.url) =>
              Len(fetch.attempts) = 0 /\ fetch.result = "thrown"
        /\ ValidUrl(fetch.url) =>
              /\ Len(fetch.attempts) >= 1
              /\ Len(fetch.attempts) = 2 <=>
                    fetch.attempts[1].outcome \in
                        { "status404", "status500", "neterr", "timeout" }
              /\ Len(fetch.attempts) = 2 => fetch.attempts[2].headers = "browser"

\* The reasons a call can end with when the network gave no answer at all.
NetworkReasons ==
    { Reason("fetch failed"), Reason("fetch failed (network)") }
    \cup { [ text |-> "fetch failed (network)", attempt1 |-> a, attempt2 |-> b ] :
             a \in { "fetch failed", "timeout" }, b \in { "fetch failed", "timeout" } }

\* C27 as stated: a call whose last answer was 2xx with a body that is too
\* small or has no calendar marker ends thrown, with a reason no network
\* error gives; the body is not returned to the normalizer.
C27_ContentValidation ==
    fetch.pc = "done" /\ Len(fetch.attempts) > 0
        /\ fetch.attempts[Len(fetch.attempts)].outcome \in { "ok_small", "ok_nomarker" } =>
            /\ fetch.result = "thrown"
            /\ fetch.reason \notin NetworkReasons

\* ---------------------------------------------------------------------
\* C28: an upsert leaves every row that was in the table at its place (its
\* id), with its key, its report_count and its last_reported_at; an entry
\* whose key is in the table adds no row.
C28_UpsertKeepsReports ==
    [][ \A r \in Runs : UpsertOk(r) =>
          /\ \A i \in DOMAIN protests :
                /\ protests'[i].source_key = protests[i].source_key
                /\ protests'[i].external_id = protests[i].external_id
                /\ protests'[i].report_count = protests[i].report_count
                /\ protests'[i].last_reported_at = protests[i].last_reported_at
          /\ (\E i \in DOMAIN protests :
                /\ protests[i].source_key = sources[run[r].si].key
                /\ protests[i].external_id = Loop(run[r])[run[r].ei].external_id)
             => Len(protests') = Len(protests) ]_vars

\* An imported row with two reports was upserted by a run that started
\* after the second report.
C28_Witness ==
    \E i \in DOMAIN protests :
        /\ protests[i].source_type = "import"
        /\ protests[i].report_count = 2
        /\ protests[i].last_reported_at # NoTime
        /\ protests[i].last_seen_at > protests[i].last_reported_at

\* ---------------------------------------------------------------------
\* C29: last_seen_at never moves backwards: after each upsert, of any
\* invocation in any interleaving, every imported row that was in the table
\* has a last_seen_at greater than or equal to its value before.
C29_LastSeenMonotonic ==
    [][ \A r \in Runs : UpsertOk(r) =>
          \A i \in DOMAIN protests :
              protests[i].source_type = "import"
                  => protests'[i].last_seen_at >= protests[i].last_seen_at ]_vars

\* ---------------------------------------------------------------------
\* C30: in an invocation that filters by the window, the filter runs over
\* the first 200 normalized entries only: for every feed the count kept is
\* at most the count fetched, which is at most 200, and an entry at a
\* position greater than 200 (whose id no earlier entry has) is never
\* upserted, also when entries among the first 200 are outside the window.
C30_CapBeforeWindow ==
    \A r \in Runs :
        run[r].windowed =>
            /\ Len(run[r].filtered) <= Len(run[r].limited)
            /\ Len(run[r].limited) <= 200
            /\ \A k \in KeysOf(sources) :
                  LET events == icsToEvents(feeds[k]).events
                      first == { events[j].external_id :
                                    j \in 1 .. (IF Len(events) < 200 THEN Len(events) ELSE 200) }
                      wrote == { run[r].written[w] : w \in DOMAIN run[r].written }
                  IN \A j \in 201 .. Len(events) :
                        events[j].external_id \notin first
                            => << k, events[j].external_id >> \notin wrote

\* A filtering invocation over a feed of 250 entries, the first 50 of them
\* outside the window and the last 50 inside it, has ended the feed's loop:
\* it fetched 200, kept and wrote the 150 entries 51..200.
C30_Witness ==
    \E r \in Runs :
        /\ run[r].pc = "upsert"
        /\ run[r].ei > Len(run[r].filtered)
        /\ run[r].windowed
        /\ Len(feeds["a"]) = FeedCap + 50
        /\ ~ InWindow(feeds["a"][1], run[r].nowIso)
        /\ InWindow(feeds["a"][FeedCap + 50], run[r].nowIso)
        /\ Len(run[r].limited) = FeedCap
        /\ Len(run[r].filtered) = FeedCap - 50
        /\ Len(run[r].written) = FeedCap - 50
        /\ run[r].written[FeedCap - 50] = << "a", FeedCap >>

====
